---------------------------- MODULE Spec2Model ----------------------------
(***************************************************************************)
(* Model of the Pneuma FAQ bot of src/app.py: the intent catalog, the      *)
(* keyword classifier, the canned-reply table, the generation call with    *)
(* its fallback, and process_message, invoked by one or several callers    *)
(* on the shared bot instance.                                             *)
(*                                                                         *)
(* A Python str is a sequence of one-character strings, so that lower(),   *)
(* strip() and the substring test `in` are computed and not assumed.  A    *)
(* canned reply is a text of one piece holding its (abridged) wording: the *)
(* code only ever returns these replies whole.  A Python value handed to   *)
(* process_message is a record [type, value].                              *)
(***************************************************************************)
EXTENDS Integers, Sequences, FiniteSets, TLC

(***************************************************************************)
(* Bounds of the model.                                                    *)
(***************************************************************************)
\* a generated message is the concatenation of at most MaxWords fragments
MaxWords == 2
\* number of invocations of process_message that may be in progress at once
NCalls == 2

(***************************************************************************)
(* Python str operations.                                                  *)
(***************************************************************************)
UpperCase ==
    <<"A", "B", "C", "D", "E", "F", "G", "H", "I", "J", "K", "L", "M",
      "N", "O", "P", "Q", "R", "S", "T", "U", "V", "W", "X", "Y", "Z">>

LowerCase ==
    <<"a", "b", "c", "d", "e", "f", "g", "h", "i", "j", "k", "l", "m",
      "n", "o", "p", "q", "r", "s", "t", "u", "v", "w", "x", "y", "z">>

\* str.lower() on one character
lower_char(ch) ==
    IF \E i \in 1..Len(UpperCase) : UpperCase[i] = ch
    THEN LowerCase[CHOOSE i \in 1..Len(UpperCase) : UpperCase[i] = ch]
    ELSE ch

\* str.lower()
lower(s) == [i \in 1..Len(s) |-> lower_char(s[i])]

\* the substring test `k in s`
contains(s, k) ==
    \E i \in 0..(Len(s) - Len(k)) : SubSeq(s, i + 1, i + Len(k)) = k

\* the characters str.strip() removes
Whitespace == {" ", "\t", "\n", "\r", "\f"}

RECURSIVE lstrip(_)
lstrip(s) ==
    IF s # <<>> /\ Head(s) \in Whitespace THEN lstrip(Tail(s)) ELSE s

RECURSIVE rstrip(_)
rstrip(s) ==
    IF s # <<>> /\ s[Len(s)] \in Whitespace
    THEN rstrip(SubSeq(s, 1, Len(s) - 1))
    ELSE s

\* str.strip()
strip(s) == rstrip(lstrip(s))

\* Python values: a str, or a value of another type (None, an int, a dict)
PyStr(s) == [type |-> "str", value |-> s]
PyNone == [type |-> "NoneType", value |-> <<>>]
PyInt == [type |-> "int", value |-> <<>>]
PyDict == [type |-> "dict", value |-> <<>>]
IsStr(v) == v.type = "str"

(***************************************************************************)
(* The intent catalog built by PneumaFAQBot.__init__: a dict, which        *)
(* iterates in insertion order, so a sequence.  sample_phrases is never    *)
(* read by the code and is left out.                                       *)
(***************************************************************************)
PneumaFAQBot_init ==
    << [name |-> "deals_and_offers",
        keywords |-> <<
            <<"d", "e", "a", "l">>,
            <<"o", "f", "f", "e", "r">>,
            <<"d", "i", "s", "c", "o", "u", "n", "t">>,
            <<"s", "a", "v", "e">>,
            <<"s", "w", "e", "e", "t">>,
            <<"s", "p", "e", "c", "i", "a", "l">>,
            <<"p", "r", "o", "m", "o">>,
            <<"c", "o", "u", "p", "o", "n">> >>,
        system_prompt |-> "You are Pneuma's deals specialist. ..."],
       [name |-> "mileage_and_rewards",
        keywords |-> <<
            <<"m", "i", "l", "e">>,
            <<"p", "o", "i", "n", "t">>,
            <<"t", "r", "a", "n", "s", "f", "e", "r">>,
            <<"r", "e", "d", "e", "e", "m">>,
            <<"r", "e", "w", "a", "r", "d">>,
            <<"l", "o", "y", "a", "l", "t", "y">>,
            <<"e", "a", "r", "n">>,
            <<"a", "c", "c", "u", "m", "u", "l", "a", "t", "e">> >>,
        system_prompt |-> "You are Pneuma's rewards program expert. ..."],
       [name |-> "account_and_setup",
        keywords |-> <<
            <<"a", "c", "c", "o", "u", "n", "t">>,
            <<"s", "e", "t", "u", "p">>,
            <<"s", "i", "g", "n", " ", "u", "p">>,
            <<"r", "e", "g", "i", "s", "t", "e", "r">>,
            <<"l", "o", "g", "i", "n">>,
            <<"g", "e", "t", "t", "i", "n", "g", " ", "s", "t", "a", "r", "t", "e", "d">>,
            <<"h", "o", "w", " ", "t", "o">>,
            <<"b", "e", "g", "i", "n">> >>,
        system_prompt |-> "You are Pneuma's onboarding assistant. ..."] >>

(***************************************************************************)
(* The canned replies, the local table of get_mock_response: per intent a  *)
(* default reply and a dict of keyed replies, in definition order.         *)
(***************************************************************************)
mock_responses ==
    << [name |-> "deals_and_offers",
        default |-> <<"Great question about deals! Here are today's sweet-spot offers: ...">>,
        keywords |-> <<
            [keyword |-> <<"t", "o", "d", "a", "y">>,
             response |-> <<"Today's hot deals include dining discounts, ...">>],
            [keyword |-> <<"d", "i", "n", "i", "n", "g">>,
             response |-> <<"Dining deals are amazing right now ...">>],
            [keyword |-> <<"b", "e", "s", "t">>,
             response |-> <<"Our best deals right now: ...">>] >>],
       [name |-> "mileage_and_rewards",
        default |-> <<"Transferring miles with Pneuma is simple: ...">>,
        keywords |-> <<
            [keyword |-> <<"t", "r", "a", "n", "s", "f", "e", "r">>,
             response |-> <<"Points transfer is easy! ...">>],
            [keyword |-> <<"l", "i", "m", "i", "t">>,
             response |-> <<"Transfer limits depend on your tier: ...">>],
            [keyword |-> <<"d", "e", "l", "t", "a">>,
             response |-> <<"Yes! Delta is one of our top transfer partners. ...">>] >>],
       [name |-> "account_and_setup",
        default |-> <<"Welcome to Pneuma! Getting started is easy: ...">>,
        keywords |-> <<
            [keyword |-> <<"s", "i", "g", "n", " ", "u", "p">>,
             response |-> <<"Signing up is free and takes 2 minutes! ...">>],
            [keyword |-> <<"p", "n", "e", "u", "m", "a">>,
             response |-> <<"Pneuma helps you get maximum value from your spending ...">>],
            [keyword |-> <<"l", "o", "g", "i", "n">>,
             response |-> <<"Having trouble logging in? ...">>] >>] >>

\* the reply of process_message's except branch
ApologyResponse ==
    <<"Sorry, I had trouble processing that. Could you try asking again? If the issue persists, contact support@pneuma.com">>

(***************************************************************************)
(* classify_intent                                                         *)
(***************************************************************************)
\* the inner loop: score += 1 for each keyword found in message_lower
RECURSIVE keyword_score(_, _)
keyword_score(keywords, message_lower) ==
    IF keywords = <<>> THEN 0
    ELSE (IF contains(message_lower, Head(keywords)) THEN 1 ELSE 0)
         + keyword_score(Tail(keywords), message_lower)

\* intent_scores, as the items of the dict in insertion order
intent_scores(catalog, message_lower) ==
    [i \in 1..Len(catalog) |->
        [name |-> catalog[i].name,
         score |-> keyword_score(catalog[i].keywords, message_lower)]]

\* max(intent_scores.values())
RECURSIVE max_value(_)
max_value(items) ==
    IF Len(items) = 1 THEN items[1].score
    ELSE LET rest == max_value(Tail(items))
         IN  IF items[1].score >= rest THEN items[1].score ELSE rest

\* max(items) with the key forgotten: the items compare as (name, score)
\* tuples, so the greatest name wins
RECURSIVE max_item_by_name(_, _)
max_item_by_name(items, best) ==
    LET rank(n) == CASE n = "account_and_setup" -> 1
                     [] n = "deals_and_offers" -> 2
                     [] OTHER -> 3
    IN  IF items = <<>> THEN best
        ELSE max_item_by_name(Tail(items),
                 IF rank(Head(items).name) > rank(best.name)
                 THEN Head(items) ELSE best)

\* a maximum that keeps the last of several equal items
RECURSIVE max_item_last(_, _)
max_item_last(items, best) ==
    IF items = <<>> THEN best
    ELSE max_item_last(Tail(items),
             IF Head(items).score >= best.score THEN Head(items) ELSE best)

\* max(items, key=score): Python keeps the first of several maximal items
RECURSIVE max_item(_, _)
max_item(items, best) ==
    IF items = <<>> THEN best
    ELSE max_item(Tail(items),
                  IF Head(items).score > best.score THEN Head(items) ELSE best)

\* classify_intent without the special case for a zero maximum
classify_intent_no_default(catalog, message) ==
    LET scores == intent_scores(catalog, lower(message))
    IN  max_item(Tail(scores), Head(scores)).name

\* classify_intent defaulting to a name that is no key of the catalog
classify_intent_general_default(catalog, message) ==
    LET scores == intent_scores(catalog, lower(message))
    IN  IF max_value(scores) = 0
        THEN "general_faq"
        ELSE max_item(Tail(scores), Head(scores)).name

classify_intent(catalog, message) ==
    LET message_lower == lower(message)
        scores == intent_scores(catalog, message_lower)
    IN  IF max_value(scores) = 0
        THEN "account_and_setup"
        ELSE max_item(Tail(scores), Head(scores)).name

(***************************************************************************)
(* get_mock_response                                                       *)
(***************************************************************************)
\* the lookup defaulting to the first entry of the table
intent_responses_first_entry(intent) ==
    IF \E i \in 1..Len(mock_responses) : mock_responses[i].name = intent
    THEN mock_responses[CHOOSE i \in 1..Len(mock_responses) :
                            mock_responses[i].name = intent]
    ELSE mock_responses[1]

\* mock_responses.get(intent, mock_responses['account_and_setup'])
intent_responses(intent) ==
    IF \E i \in 1..Len(mock_responses) : mock_responses[i].name = intent
    THEN mock_responses[CHOOSE i \in 1..Len(mock_responses) :
                            mock_responses[i].name = intent]
    ELSE mock_responses[CHOOSE i \in 1..Len(mock_responses) :
                            mock_responses[i].name = "account_and_setup"]

\* the loop without its early return: the last keyword found wins
RECURSIVE first_keyed_last(_, _, _)
first_keyed_last(keyed, message_lower, default) ==
    IF keyed = <<>> THEN default
    ELSE first_keyed_last(Tail(keyed), message_lower,
             IF contains(message_lower, Head(keyed).keyword)
             THEN Head(keyed).response ELSE default)

\* the loop over the keyed replies: the first keyword found returns
RECURSIVE first_keyed(_, _, _)
first_keyed(keyed, message_lower, default) ==
    IF keyed = <<>> THEN default
    ELSE IF contains(message_lower, Head(keyed).keyword)
         THEN Head(keyed).response
         ELSE first_keyed(Tail(keyed), message_lower, default)

\* get_mock_response matching against the message as typed
get_mock_response_no_lower(message, intent) ==
    LET responses == intent_responses(intent)
    IN  first_keyed(responses.keywords, message, responses.default)

get_mock_response(message, intent) ==
    LET responses == intent_responses(intent)
    IN  first_keyed(responses.keywords, lower(message), responses.default)

(***************************************************************************)
(* Inputs: the messages callers send and the ways the external generation  *)
(* service can answer.                                                     *)
(***************************************************************************)
Fragments ==
    { <<"d", "e", "a", "l">>,
      <<"B", "e", "s", "t", " ", "O", "f", "f", "e", "r">>,
      <<"t", "r", "a", "n", "s", "f", "e", "r", " ", "m", "i", "l", "e", "s">>,
      <<"p", "o", "i", "n", "t">>,
      <<"D", "e", "l", "t", "a">>,
      <<"l", "i", "m", "i", "t">>,
      <<"t", "o", "d", "a", "y">>,
      <<"l", "o", "g", "i", "n">>,
      <<"S", "i", "g", "n", " ", "U", "p">>,
      <<"p", "n", "e", "u", "m", "a">>,
      <<"x", "y", "z", " ">>,
      <<"b", "e">>,
      <<"g", "i", "n">> }

RECURSIVE Concats(_)
Concats(n) ==
    IF n = 0 THEN { <<>> }
    ELSE LET shorter == Concats(n - 1)
         IN  shorter \cup { s \o f : s \in shorter, f \in Fragments }

\* "How do I transfer my miles to Delta?"
MsgTransferDelta ==
    <<"H", "o", "w", " ", "d", "o", " ", "I", " ", "t", "r", "a", "n", "s",
      "f", "e", "r", " ", "m", "y", " ", "m", "i", "l", "e", "s", " ", "t",
      "o", " ", "D", "e", "l", "t", "a", "?">>

\* "What deals do you have today?"
MsgDealsToday ==
    <<"W", "h", "a", "t", " ", "d", "e", "a", "l", "s", " ", "d", "o", " ",
      "y", "o", "u", " ", "h", "a", "v", "e", " ", "t", "o", "d", "a", "y", "?">>

\* "asdkjasd random text"
MsgRandomText ==
    <<"a", "s", "d", "k", "j", "a", "s", "d", " ", "r", "a", "n", "d", "o",
      "m", " ", "t", "e", "x", "t">>

StringMessages ==
    Concats(MaxWords) \cup {MsgTransferDelta, MsgDealsToday, MsgRandomText}

\* what a caller may hand to process_message
MessageValues ==
    { PyStr(s) : s \in StringMessages } \cup {PyNone, PyInt, PyDict}

\* the messages of the callers that run concurrently
SharedMessages ==
    { PyStr(MsgTransferDelta), PyStr(<<"d", "e", "a", "l">>), PyNone }

\* the content of a completion the service returns
Completions ==
    { <<"H", "i">>, <<" ", "H", "i", " ", "\n">>, <<" ", "\t", "\n">>, <<>> }

\* a response object the code cannot read: choices is empty (IndexError),
\* or message.content is None (AttributeError on .strip())
MalformedKinds == {"empty_choices", "null_content"}

\* exceptions raised by client.chat.completions.create
ApiErrorKinds == {"connection_error", "rejected", "timeout"}

NoOutcome == [kind |-> "none", content |-> <<>>]

(***************************************************************************)
(* State.                                                                  *)
(***************************************************************************)
VARIABLES
    intents,      \* bot.intents, the catalog of the shared bot instance
    LLM_ENABLED,  \* module global set at import from OPENAI_API_KEY
    client,       \* module global: "OpenAI" or "None"
    pc,           \* per invocation: where process_message stands
    message,      \* per invocation: the argument of process_message
    intent,       \* per invocation: local intent
    response,     \* per invocation: local response
    outcome,      \* per invocation: how the external call ended
    sent,         \* per invocation: the requests sent to the service
    log,          \* per invocation: levels of the log records it emitted
    result,       \* per invocation: the dict returned to the caller
    data,         \* per webhook request: the JSON payload, request.get_json()
    http          \* per webhook request: the HTTP response given

vars == <<intents, LLM_ENABLED, client, pc, message, intent, response,
          outcome, sent, log, result, data, http>>

\* the state of whatsapp_webhook around process_message
web == <<data, http>>

\* no webhook request in progress, no response given yet
NoData == <<>>
NoHttp == <<>>

config == <<intents, LLM_ENABLED, client>>

Calls == 1..NCalls

NoResult == <<>>

Init ==
    /\ intents = PneumaFAQBot_init
    /\ LLM_ENABLED \in BOOLEAN
    /\ client = IF LLM_ENABLED THEN "OpenAI" ELSE "None"
    /\ pc = [c \in Calls |-> "idle"]
    /\ message = [c \in Calls |-> PyNone]
    /\ intent = [c \in Calls |-> ""]
    /\ response = [c \in Calls |-> <<>>]
    /\ outcome = [c \in Calls |-> NoOutcome]
    /\ sent = [c \in Calls |-> <<>>]
    /\ log = [c \in Calls |-> <<>>]
    /\ result = [c \in Calls |-> NoResult]
    /\ data = [c \in Calls |-> NoData]
    /\ http = [c \in Calls |-> NoHttp]

(***************************************************************************)
(* process_message, one action per step at which another invocation can    *)
(* interleave.                                                             *)
(***************************************************************************)
\* a caller invokes bot.process_message(m)
Invoke(c, m) ==
    /\ pc[c] = "idle"
    /\ pc' = [pc EXCEPT ![c] = "classify"]
    /\ message' = [message EXCEPT ![c] = m]
    /\ UNCHANGED <<web, config, intent, response, outcome, sent, log, result>>

\* intent = self.classify_intent(message); logger.info(...)
\* message.lower() raises AttributeError when message is not a str
ClassifyIntent(c) ==
    /\ pc[c] = "classify"
    /\ IF IsStr(message[c])
       THEN /\ intent' = [intent EXCEPT
                            ![c] = classify_intent(intents, message[c].value)]
            /\ log' = [log EXCEPT ![c] = Append(@, "INFO")]
            /\ pc' = [pc EXCEPT ![c] = "generate"]
       ELSE /\ pc' = [pc EXCEPT ![c] = "except"]
            /\ UNCHANGED <<intent, log>>
    /\ UNCHANGED <<web, config, message, response, outcome, sent, result>>

\* self.intents[intent]
has_intent(catalog, name) == \E i \in 1..Len(catalog) : catalog[i].name = name
get_intent(catalog, name) ==
    catalog[CHOOSE i \in 1..Len(catalog) : catalog[i].name = name]

\* generate_response without the check of LLM_ENABLED and client
GenerateResponse_always_calls(c) ==
    /\ pc[c] = "generate"
    /\ sent' = [sent EXCEPT ![c] = Append(@,
          [system |-> get_intent(intents, intent[c]).system_prompt,
           user |-> message[c].value])]
    /\ pc' = [pc EXCEPT ![c] = "call"]
    /\ UNCHANGED <<web, config, message, intent, response, outcome, log, result>>

\* generate_response up to the external call: without the capability the
\* canned reply is returned at once; otherwise the request is built and
\* sent (a KeyError on self.intents[intent] is caught like any failure)
GenerateResponse(c) ==
    /\ pc[c] = "generate"
    /\ IF ~LLM_ENABLED \/ client = "None"
       THEN /\ response' = [response EXCEPT
                  ![c] = get_mock_response(message[c].value, intent[c])]
            /\ pc' = [pc EXCEPT ![c] = "return"]
            /\ UNCHANGED <<sent, log>>
       ELSE IF has_intent(intents, intent[c])
       THEN /\ sent' = [sent EXCEPT ![c] = Append(@,
                  [system |-> get_intent(intents, intent[c]).system_prompt,
                   user |-> message[c].value])]
            /\ pc' = [pc EXCEPT ![c] = "call"]
            /\ UNCHANGED <<response, log>>
       ELSE /\ log' = [log EXCEPT ![c] = Append(@, "ERROR")]
            /\ response' = [response EXCEPT
                  ![c] = get_mock_response(message[c].value, intent[c])]
            /\ pc' = [pc EXCEPT ![c] = "return"]
            /\ UNCHANGED sent
    /\ UNCHANGED <<web, config, message, intent, outcome, result>>

\* generate_response without its try: the failure reaches process_message
fallback_on_failure_raises(c, o) ==
    /\ outcome' = [outcome EXCEPT ![c] = o]
    /\ pc' = [pc EXCEPT ![c] = "except"]
    /\ UNCHANGED <<web, config, message, intent, response, sent, log, result>>

\* an except branch that also switches generation off for everyone
fallback_on_failure_disables(c, o) ==
    /\ outcome' = [outcome EXCEPT ![c] = o]
    /\ log' = [log EXCEPT ![c] = Append(@, "ERROR")]
    /\ response' = [response EXCEPT
          ![c] = get_mock_response(message[c].value, intent[c])]
    /\ pc' = [pc EXCEPT ![c] = "return"]
    /\ LLM_ENABLED' = FALSE
    /\ UNCHANGED <<web, intents, client, message, intent, sent, result>>

\* an except branch that tries the call again instead of falling back
fallback_on_failure_retries(c, o) ==
    /\ outcome' = [outcome EXCEPT ![c] = o]
    /\ log' = [log EXCEPT ![c] = Append(@, "ERROR")]
    /\ pc' = [pc EXCEPT ![c] = IF Len(sent[c]) < 2 THEN "generate" ELSE "return"]
    /\ response' = [response EXCEPT
          ![c] = get_mock_response(message[c].value, intent[c])]
    /\ UNCHANGED <<web, config, message, intent, sent, result>>

\* an except branch that falls back without logging the failure
fallback_on_failure_silent(c, o) ==
    /\ outcome' = [outcome EXCEPT ![c] = o]
    /\ response' = [response EXCEPT
          ![c] = get_mock_response(message[c].value, intent[c])]
    /\ pc' = [pc EXCEPT ![c] = "return"]
    /\ UNCHANGED <<web, config, message, intent, sent, log, result>>

\* the except branch of generate_response: logger.error(...), then
\* return self.get_mock_response(message, intent)
fallback_on_failure(c, o) ==
    /\ outcome' = [outcome EXCEPT ![c] = o]
    /\ log' = [log EXCEPT ![c] = Append(@, "ERROR")]
    /\ response' = [response EXCEPT
          ![c] = get_mock_response(message[c].value, intent[c])]
    /\ pc' = [pc EXCEPT ![c] = "return"]
    /\ UNCHANGED <<web, config, message, intent, sent, result>>

\* the completion returned as received, without .strip()
Completion_no_strip(c, content) ==
    /\ pc[c] = "call"
    /\ outcome' = [outcome EXCEPT
          ![c] = [kind |-> "completion", content |-> content]]
    /\ response' = [response EXCEPT ![c] = content]
    /\ pc' = [pc EXCEPT ![c] = "return"]
    /\ UNCHANGED <<web, config, message, intent, sent, log, result>>

\* the service answers with a completion:
\* return response.choices[0].message.content.strip()
Completion(c, content) ==
    /\ pc[c] = "call"
    /\ outcome' = [outcome EXCEPT
          ![c] = [kind |-> "completion", content |-> content]]
    /\ response' = [response EXCEPT ![c] = strip(content)]
    /\ pc' = [pc EXCEPT ![c] = "return"]
    /\ UNCHANGED <<web, config, message, intent, sent, log, result>>

\* the service answers with a response the code cannot read
MalformedResponse(c, kind) ==
    /\ pc[c] = "call"
    /\ fallback_on_failure(c, [kind |-> kind, content |-> <<>>])

\* client.chat.completions.create raises
ApiError(c, kind) ==
    /\ pc[c] = "call"
    /\ fallback_on_failure(c, [kind |-> kind, content |-> <<>>])

\* return {'success': True, 'intent': intent, 'response': response}
Return(c) ==
    /\ pc[c] = "return"
    /\ result' = [result EXCEPT ![c] =
          [success |-> TRUE, intent |-> intent[c], response |-> response[c]]]
    /\ pc' = [pc EXCEPT ![c] = "done"]
    /\ UNCHANGED <<web, config, message, intent, response, outcome, sent, log>>

\* an except branch that puts str(e) into the reply
Except_leaks(c) ==
    /\ pc[c] = "except"
    /\ log' = [log EXCEPT ![c] = Append(@, "ERROR")]
    /\ result' = [result EXCEPT ![c] =
          [success |-> FALSE,
           response |-> ApologyResponse \o
               <<"'NoneType' object has no attribute 'lower'">>]]
    /\ pc' = [pc EXCEPT ![c] = "done"]
    /\ UNCHANGED <<web, config, message, intent, response, outcome, sent>>

\* except Exception: logger.error(...); return {'success': False, ...}
Except(c) ==
    /\ pc[c] = "except"
    /\ log' = [log EXCEPT ![c] = Append(@, "ERROR")]
    /\ result' = [result EXCEPT ![c] =
          [success |-> FALSE, response |-> ApologyResponse]]
    /\ pc' = [pc EXCEPT ![c] = "done"]
    /\ UNCHANGED <<web, config, message, intent, response, outcome, sent>>

\* the caller has taken the result: the invocation's frame and the
\* returned dict are gone, and the caller may invoke again
Consume(c) ==
    /\ pc[c] = "done"
    /\ pc' = [pc EXCEPT ![c] = "idle"]
    /\ message' = [message EXCEPT ![c] = PyNone]
    /\ intent' = [intent EXCEPT ![c] = ""]
    /\ response' = [response EXCEPT ![c] = <<>>]
    /\ outcome' = [outcome EXCEPT ![c] = NoOutcome]
    /\ sent' = [sent EXCEPT ![c] = <<>>]
    /\ log' = [log EXCEPT ![c] = <<>>]
    /\ result' = [result EXCEPT ![c] = NoResult]
    /\ UNCHANGED <<web, config>>

\* the steps of one invocation
Step(c) ==
    \/ ClassifyIntent(c)
    \/ GenerateResponse(c)
    \/ \E content \in Completions : Completion(c, content)
    \/ \E kind \in MalformedKinds : MalformedResponse(c, kind)
    \/ \E kind \in ApiErrorKinds : ApiError(c, kind)
    \/ Return(c)
    \/ Except(c)
    \/ Consume(c)

\* one caller, requests served one after the other, any message
Next ==
    \/ \E m \in MessageValues : Invoke(1, m)
    \/ Step(1)

Spec == Init /\ [][Next]_vars

\* NCalls callers on the shared bot, their invocations interleaved
NextConc ==
    \E c \in Calls :
        \/ \E m \in SharedMessages : Invoke(c, m)
        \/ Step(c)

SpecConc == Init /\ [][NextConc]_vars

(***************************************************************************)
(* get_mock_response called on the bot directly, with any intent name.     *)
(***************************************************************************)
\* the names a direct caller may pass: the catalog's, and names the reply
\* table has no entry for (dict keys compare exactly, case included)
IntentArguments ==
    {"deals_and_offers", "mileage_and_rewards", "account_and_setup",
     "general_faq", "Deals_And_Offers", ""}

\* a caller invokes bot.get_mock_response(m, name) and gets its reply
MockCall(c, m, name) ==
    /\ pc[c] = "idle"
    /\ message' = [message EXCEPT ![c] = PyStr(m)]
    /\ intent' = [intent EXCEPT ![c] = name]
    /\ response' = [response EXCEPT ![c] = get_mock_response(m, name)]
    /\ pc' = [pc EXCEPT ![c] = "mock_returned"]
    /\ UNCHANGED <<web, config, outcome, sent, log, result>>

\* the caller has taken the reply
MockConsume(c) ==
    /\ pc[c] = "mock_returned"
    /\ pc' = [pc EXCEPT ![c] = "idle"]
    /\ message' = [message EXCEPT ![c] = PyNone]
    /\ intent' = [intent EXCEPT ![c] = ""]
    /\ response' = [response EXCEPT ![c] = <<>>]
    /\ UNCHANGED <<web, config, outcome, sent, log, result>>

NextMock ==
    \/ \E m \in StringMessages, name \in IntentArguments : MockCall(1, m, name)
    \/ MockConsume(1)

SpecMock == Init /\ [][NextMock]_vars

(***************************************************************************)
(* whatsapp_webhook, POST /webhook.  The payload is a dict with or without *)
(* the keys 'Body', 'From', 'message' and 'from', or None.                 *)
(***************************************************************************)
\* a key the payload does not have
Absent == [type |-> "absent", value |-> <<>>]

\* a dict that has the key 'text', holding the str s
PyTextDict(s) == [type |-> "dict_text", value |-> s]

\* the str 'text'
TextKey == <<"t", "e", "x", "t">>

\* message strings sent to the webhook
WebTexts ==
    { <<>>,
      <<"d", "e", "a", "l">>,
      <<"T", "e", "x", "t", " ", "m", "e">>,
      MsgTransferDelta,
      MsgRandomText }

PhoneNumber == PyStr(<<"+", "1", "2", "3">>)

Payloads ==
    [Body : {Absent, PyStr(<<>>), PyStr(<<"l", "o", "g", "i", "n">>)},
     From : {Absent, PhoneNumber},
     message : {Absent, PyNone, PyInt, PyDict,
                PyTextDict(<<>>), PyTextDict(<<"d", "e", "a", "l">>)}
               \cup { PyStr(s) : s \in WebTexts },
     from : {Absent, PhoneNumber}]
    \cup {PyNone}

\* data.get(key, default)
dict_get(value, default) == IF value = Absent THEN PyStr(default) ELSE value

\* `'text' in data['message']`: a key test on a dict, a substring test on
\* a str, a TypeError on None or an int
text_in_raises(v) == v.type \in {"NoneType", "int"}
text_in(v) ==
    CASE v.type = "dict_text" -> TRUE
      [] v.type = "dict" -> FALSE
      [] v.type = "str" -> contains(v.value, TextKey)
      [] OTHER -> FALSE

\* `not message_text`: None, an empty str
falsy(v) == v.type = "NoneType" \/ (v.type = "str" /\ v.value = <<>>)

\* lines 632-650: what the handler takes from the payload, or that an
\* exception was raised on the way ('Body' in None; 'text' in None or an
\* int; data['message']['text'] on a str, whose indices must be integers)
extract_raises(d) ==
    \/ d = PyNone
    \/ /\ d # PyNone
       /\ d.Body = Absent
       /\ d.message # Absent
       /\ \/ text_in_raises(d.message)
          \/ d.message.type = "str" /\ text_in(d.message)

extract(d) ==
    IF d.Body # Absent
    THEN [message_text |-> d.Body,
          from_number |-> dict_get(d.From, <<"u", "n", "k", "n", "o", "w", "n">>)]
    ELSE IF d.message # Absent /\ text_in(d.message)
    THEN [message_text |-> PyStr(d.message.value),
          from_number |-> dict_get(d.from, <<"u", "n", "k", "n", "o", "w", "n">>)]
    ELSE IF d.message # Absent
    THEN [message_text |-> d.message,
          from_number |-> dict_get(d.from, <<"t", "e", "s", "t", "_", "u", "s", "e", "r">>)]
    ELSE [message_text |-> PyNone, from_number |-> PyNone]

InternalServerError ==
    [status |-> 500, body |-> [error |-> <<"Internal server error">>]]

NoMessageText ==
    [status |-> 400, body |-> [error |-> <<"No message text found">>]]

\* the handler up to bot.process_message(message_text): the outer except
\* answers 500, a missing text 400, otherwise process_message is entered
WebhookReceive(c, d) ==
    /\ pc[c] = "idle"
    /\ data' = [data EXCEPT ![c] = d]
    /\ IF extract_raises(d)
       THEN /\ http' = [http EXCEPT ![c] = InternalServerError]
            /\ pc' = [pc EXCEPT ![c] = "responded"]
            /\ log' = [log EXCEPT ![c] = Append(@, "ERROR")]
            /\ UNCHANGED message
       ELSE IF falsy(extract(d).message_text)
       THEN /\ http' = [http EXCEPT ![c] = NoMessageText]
            /\ pc' = [pc EXCEPT ![c] = "responded"]
            /\ UNCHANGED <<message, log>>
       ELSE /\ message' = [message EXCEPT ![c] = extract(d).message_text]
            /\ pc' = [pc EXCEPT ![c] = "classify"]
            /\ UNCHANGED <<http, log>>
    /\ UNCHANGED <<config, intent, response, outcome, sent, result>>

\* lines 658-669: the result of process_message rendered as the response
WebhookRespond(c) ==
    /\ pc[c] = "done"
    /\ data[c] # NoData
    /\ IF result[c].success
       THEN /\ http' = [http EXCEPT ![c] =
                  [status |-> 200,
                   body |-> [success |-> TRUE,
                             reply |-> result[c].response,
                             intent |-> result[c].intent,
                             from |-> extract(data[c]).from_number]]]
            /\ UNCHANGED log
       ELSE /\ http' = [http EXCEPT ![c] =
                  [status |-> 500, body |-> [error |-> result[c].response]]]
            /\ log' = [log EXCEPT ![c] = Append(@, "ERROR")]
    /\ pc' = [pc EXCEPT ![c] = "responded"]
    /\ UNCHANGED <<config, message, intent, response, outcome, sent, result,
                   data>>

\* the response has been sent: the request is over
WebhookClose(c) ==
    /\ pc[c] = "responded"
    /\ pc' = [pc EXCEPT ![c] = "idle"]
    /\ message' = [message EXCEPT ![c] = PyNone]
    /\ intent' = [intent EXCEPT ![c] = ""]
    /\ response' = [response EXCEPT ![c] = <<>>]
    /\ outcome' = [outcome EXCEPT ![c] = NoOutcome]
    /\ sent' = [sent EXCEPT ![c] = <<>>]
    /\ log' = [log EXCEPT ![c] = <<>>]
    /\ result' = [result EXCEPT ![c] = NoResult]
    /\ data' = [data EXCEPT ![c] = NoData]
    /\ http' = [http EXCEPT ![c] = NoHttp]
    /\ UNCHANGED config

\* requests to POST /webhook, served one after the other
NextWeb ==
    \/ \E d \in Payloads : WebhookReceive(1, d)
    \/ ClassifyIntent(1)
    \/ GenerateResponse(1)
    \/ \E content \in Completions : Completion(1, content)
    \/ \E kind \in MalformedKinds : MalformedResponse(1, kind)
    \/ \E kind \in ApiErrorKinds : ApiError(1, kind)
    \/ Return(1)
    \/ Except(1)
    \/ WebhookRespond(1)
    \/ WebhookClose(1)

SpecWeb == Init /\ [][NextWeb]_vars

(***************************************************************************)
(* Vocabulary of the properties, stated without the loops of the code.     *)
(***************************************************************************)
IntentNames == {"deals_and_offers", "mileage_and_rewards", "account_and_setup"}

\* the entry of a catalog (or of the reply table) with a given name
Entry(table, name) ==
    table[CHOOSE i \in 1..Len(table) : table[i].name = name]

\* per intent, the number of its keywords that occur in the lowercased
\* message
MatchCounts(catalog, s) ==
    LET low == lower(s)
    IN  [n \in IntentNames |->
            LET kws == Entry(catalog, n).keywords
            IN  Cardinality({ i \in 1..Len(kws) : contains(low, kws[i]) })]

NoKeywordOccurs(count) == \A n \in IntentNames : count[n] = 0

IsMaxCount(count, name) == \A n \in IntentNames : count[n] <= count[name]

\* the catalog with its entries in another order
Reorderings(catalog) ==
    { [i \in 1..Len(catalog) |-> catalog[p[i]]] :
        p \in { q \in [1..Len(catalog) -> 1..Len(catalog)] :
                    \A i, j \in 1..Len(catalog) : q[i] = q[j] => i = j } }

\* the replies of one intent in the reply table
FallbackReplies(name) ==
    LET e == Entry(mock_responses, name)
    IN  {e.default} \cup { e.keywords[i].response : i \in 1..Len(e.keywords) }

KeyedReply(name, trigger) ==
    LET e == Entry(mock_responses, name)
    IN  e.keywords[CHOOSE i \in 1..Len(e.keywords) :
                       e.keywords[i].keyword = trigger].response

\* the reply of the first keyed trigger, in definition order, that occurs
\* in the lowercased message, else the default reply
FirstTriggerReply(s, name) ==
    LET e == Entry(mock_responses, name)
        hits == { i \in 1..Len(e.keywords) :
                      contains(lower(s), e.keywords[i].keyword) }
    IN  IF hits = {} THEN e.default
        ELSE e.keywords[CHOOSE i \in hits : \A j \in hits : i <= j].response

\* the invocation has classified a str message
Classified(c) ==
    /\ pc[c] \in {"generate", "call", "return", "done"}
    /\ IsStr(message[c])

\* the external call of the invocation failed
CallFailed(c) == outcome[c].kind \in MalformedKinds \cup ApiErrorKinds

(***************************************************************************)
(* C1.  With the generation capability unconfigured (LLM_ENABLED false),   *)
(* no invocation sends a request to the service, and every invocation on   *)
(* a str message returns success = true, intent = classify_intent(message) *)
(* and a response that is one of that intent's canned replies and of no    *)
(* other intent's.                                                         *)
(***************************************************************************)
C1_UnconfiguredRepliesFromFallbackTable ==
    ~LLM_ENABLED =>
        \A c \in Calls :
            /\ sent[c] = <<>>
            /\ outcome[c] = NoOutcome
            /\ (pc[c] = "done" /\ IsStr(message[c])) =>
                  /\ DOMAIN result[c] = {"success", "intent", "response"}
                  /\ result[c].success = TRUE
                  /\ result[c].intent = classify_intent(intents, message[c].value)
                  /\ result[c].response \in FallbackReplies(result[c].intent)
                  /\ \A n \in IntentNames \ {result[c].intent} :
                        result[c].response \notin FallbackReplies(n)

\* an unconfigured bot has answered a str message with a keyed reply
C1_Witness ==
    \E c \in Calls :
        /\ ~LLM_ENABLED
        /\ pc[c] = "done"
        /\ IsStr(message[c])
        /\ result[c].success = TRUE
        /\ result[c].intent = "deals_and_offers"
        /\ result[c].response = KeyedReply("deals_and_offers", <<"t", "o", "d", "a", "y">>)

(***************************************************************************)
(* C2.  With the capability configured, once the external call has failed  *)
(* (connection error, rejection, timeout, empty choices, null content) the *)
(* failure does not leave generate_response: the invocation goes on to     *)
(* return success = true, intent = classify_intent(message) and response = *)
(* get_mock_response(message, intent).                                     *)
(***************************************************************************)
C2_FailedCallFallsBack ==
    \A c \in Calls :
        (LLM_ENABLED /\ CallFailed(c)) =>
            /\ pc[c] \in {"return", "done"}
            /\ intent[c] = classify_intent(intents, message[c].value)
            /\ response[c] = get_mock_response(message[c].value, intent[c])
            /\ pc[c] = "done" =>
                  result[c] = [success |-> TRUE,
                               intent |-> intent[c],
                               response |-> response[c]]

\* a timeout was raised and the invocation returned a keyed canned reply
C2_Witness ==
    \E c \in Calls :
        /\ LLM_ENABLED
        /\ outcome[c].kind = "timeout"
        /\ pc[c] = "done"
        /\ result[c].success = TRUE
        /\ result[c].response = KeyedReply("account_and_setup", <<"l", "o", "g", "i", "n">>)

(***************************************************************************)
(* C3.  When no keyword of any intent occurs in the lowercased message     *)
(* (the empty message included), classify_intent returns                   *)
(* 'account_and_setup', and does so for every order of the catalog.        *)
(***************************************************************************)
C3_NoKeywordGivesDefaultIntent ==
    \A c \in Calls :
        (Classified(c) /\ NoKeywordOccurs(MatchCounts(intents, message[c].value))) =>
            /\ intent[c] = "account_and_setup"
            /\ \A catalog \in Reorderings(intents) :
                  classify_intent(catalog, message[c].value) = "account_and_setup"

\* the empty message has been classified
C3_Witness ==
    \E c \in Calls :
        /\ Classified(c)
        /\ message[c].value = <<>>
        /\ intent[c] = "account_and_setup"

(***************************************************************************)
(* C4.  When at least one keyword occurs, classify_intent returns an       *)
(* intent whose match count is the maximum over all intents; so a message  *)
(* matching keywords of one intent only yields that intent.                *)
(***************************************************************************)
C4_ReturnsAMaximalIntent ==
    \A c \in Calls :
        Classified(c) =>
            LET count == MatchCounts(intents, message[c].value)
            IN  ~NoKeywordOccurs(count) =>
                    /\ intent[c] \in IntentNames
                    /\ IsMaxCount(count, intent[c])
                    /\ \A n \in IntentNames :
                          (\A o \in IntentNames \ {n} : count[o] = 0)
                          => intent[c] = n

\* two intents match with different counts, the later one in the catalog
\* more often, and it is returned
C4_Witness ==
    \E c \in Calls :
        /\ Classified(c)
        /\ LET count == MatchCounts(intents, message[c].value)
           IN  /\ count["deals_and_offers"] = 1
               /\ count["mileage_and_rewards"] = 2
        /\ intent[c] = "mileage_and_rewards"

(***************************************************************************)
(* C5.  When several intents share the maximum non-zero count,             *)
(* classify_intent returns the one that comes first in the catalog, whose  *)
(* order is deals_and_offers, mileage_and_rewards, account_and_setup; the  *)
(* intent is thus a function of the message alone.                         *)
(***************************************************************************)
C5_TieGoesToFirstInCatalog ==
    /\ [i \in 1..Len(intents) |-> intents[i].name]
          = <<"deals_and_offers", "mileage_and_rewards", "account_and_setup">>
    /\ \A c \in Calls :
          Classified(c) =>
              LET count == MatchCounts(intents, message[c].value)
              IN  ~NoKeywordOccurs(count) =>
                      \E i \in 1..Len(intents) :
                          /\ intents[i].name = intent[c]
                          /\ IsMaxCount(count, intent[c])
                          /\ \A j \in 1..(i - 1) :
                                ~IsMaxCount(count, intents[j].name)

\* mileage_and_rewards and account_and_setup tie at one match each and
\* mileage_and_rewards is returned
C5_Witness ==
    \E c \in Calls :
        /\ Classified(c)
        /\ LET count == MatchCounts(intents, message[c].value)
           IN  /\ count["deals_and_offers"] = 0
               /\ count["mileage_and_rewards"] = 1
               /\ count["account_and_setup"] = 1
        /\ intent[c] = "mileage_and_rewards"

(***************************************************************************)
(* C6 as stated.  For "How do I transfer my miles to Delta?" the intent    *)
(* is 'mileage_and_rewards' and, with generation unconfigured, the reply   *)
(* is the one keyed by 'delta'.                                            *)
(***************************************************************************)
C6_Original_DeltaReply ==
    \A c \in Calls :
        (~LLM_ENABLED /\ pc[c] = "done" /\ message[c] = PyStr(MsgTransferDelta)) =>
            /\ result[c].intent = "mileage_and_rewards"
            /\ result[c].response =
                  KeyedReply("mileage_and_rewards", <<"d", "e", "l", "t", "a">>)

(***************************************************************************)
(* C6 as amended.  For "How do I transfer my miles to Delta?" the intent   *)
(* is 'mileage_and_rewards' and, with generation unconfigured, the reply   *)
(* is the one keyed by 'transfer', the first trigger of that intent's      *)
(* keyed table that occurs in the message: not the reply keyed by 'delta'  *)
(* and not the default.                                                    *)
(***************************************************************************)
C6_TransferReply ==
    \A c \in Calls :
        (~LLM_ENABLED /\ pc[c] = "done" /\ message[c] = PyStr(MsgTransferDelta)) =>
            /\ classify_intent(intents, MsgTransferDelta) = "mileage_and_rewards"
            /\ result[c].success = TRUE
            /\ result[c].intent = "mileage_and_rewards"
            /\ result[c].response =
                  KeyedReply("mileage_and_rewards",
                             <<"t", "r", "a", "n", "s", "f", "e", "r">>)
            /\ result[c].response #
                  KeyedReply("mileage_and_rewards", <<"d", "e", "l", "t", "a">>)
            /\ result[c].response #
                  Entry(mock_responses, "mileage_and_rewards").default

\* the unconfigured bot has answered that message
C6_Witness ==
    \E c \in Calls :
        /\ ~LLM_ENABLED
        /\ pc[c] = "done"
        /\ message[c] = PyStr(MsgTransferDelta)
        /\ result[c].intent = "mileage_and_rewards"

(***************************************************************************)
(* C7.  For every message and every catalog intent, get_mock_response      *)
(* returns the reply of the first keyed trigger, in the definition order   *)
(* of that intent's keyed table, that occurs in the lowercased message,    *)
(* and the intent's default reply if none occurs; this is the reply of     *)
(* every invocation served from the table.                                 *)
(***************************************************************************)
C7_FirstKeyedTriggerElseDefault ==
    \A c \in Calls :
        (pc[c] # "idle" /\ IsStr(message[c])) =>
            /\ \A n \in IntentNames :
                  get_mock_response(message[c].value, n)
                      = FirstTriggerReply(message[c].value, n)
            /\ (pc[c] \in {"return", "done"}
                    /\ (~LLM_ENABLED \/ CallFailed(c))) =>
                  response[c] = FirstTriggerReply(message[c].value, intent[c])

\* "Best Offertoday" holds two triggers of deals_and_offers, 'best' (typed
\* with a capital) earlier in the message and 'today' earlier in the
\* table: the table answers with the reply keyed by 'today'
C7_Witness ==
    \E c \in Calls :
        /\ ~LLM_ENABLED
        /\ pc[c] = "done"
        /\ message[c] = PyStr(<<"B", "e", "s", "t", " ", "O", "f", "f", "e", "r",
                                "t", "o", "d", "a", "y">>)
        /\ intent[c] = "deals_and_offers"
        /\ response[c] = KeyedReply("deals_and_offers", <<"t", "o", "d", "a", "y">>)

(***************************************************************************)
(* C8.  process_message always hands its caller a result: an error during  *)
(* classification or generation (a message that is not a str) ends in      *)
(* exactly {success: false, response: the fixed apology naming             *)
(* support@pneuma.com}, with no other field and no exception text, and a   *)
(* str message never does.                                                 *)
(***************************************************************************)
C8_ErrorsBecomeTheGenericApology ==
    \A c \in Calls :
        /\ pc[c] \in {"idle", "classify", "generate", "call", "return",
                      "except", "done"}
        /\ pc[c] = "except" => ~IsStr(message[c])
        /\ pc[c] = "done" =>
              /\ result[c] # NoResult
              /\ result[c].success = IsStr(message[c])
              /\ ~IsStr(message[c]) =>
                    result[c] = [success |-> FALSE, response |-> ApologyResponse]

\* a message that is not a str has been answered
C8_Witness ==
    \E c \in Calls :
        /\ pc[c] = "done"
        /\ message[c] = PyDict
        /\ result[c].success = FALSE
        /\ log[c] = <<"ERROR">>

(***************************************************************************)
(* C10.  Whatever the interleaving of invocations on the shared bot, no    *)
(* step changes the catalog or the configuration, and the result of every  *)
(* invocation is the one its own message and the outcome of its own        *)
(* external call determine, whatever other invocations did or suffered.    *)
(***************************************************************************)
\* the result the pristine bot gives for message m when its external call
\* (if one is made) ends as o
ExpectedResult(enabled, m, o) ==
    IF ~IsStr(m)
    THEN [success |-> FALSE, response |-> ApologyResponse]
    ELSE LET name == classify_intent(PneumaFAQBot_init, m.value)
         IN  [success |-> TRUE,
              intent |-> name,
              response |-> IF enabled /\ o.kind = "completion"
                           THEN strip(o.content)
                           ELSE get_mock_response(m.value, name)]

C10_InvocationsAreIndependent ==
    [][ /\ intents' = intents
        /\ LLM_ENABLED' = LLM_ENABLED
        /\ client' = client
        /\ \A c \in Calls :
              pc'[c] = "done" =>
                  /\ result'[c] = ExpectedResult(LLM_ENABLED, message'[c], outcome'[c])
                  /\ (LLM_ENABLED /\ IsStr(message'[c])) => outcome'[c] # NoOutcome
      ]_vars

\* one invocation has ended in success = false while another, alongside
\* it, was answered by the service and returned the stripped completion
C10_Witness ==
    \E c1, c2 \in Calls :
        /\ c1 # c2
        /\ pc[c1] = "done"
        /\ pc[c2] = "done"
        /\ result[c1].success = FALSE
        /\ outcome[c2].kind = "completion"
        /\ result[c2] = [success |-> TRUE,
                         intent |-> "mileage_and_rewards",
                         response |-> <<"H", "i">>]

(***************************************************************************)
(* C11.  classify_intent is total over strings: for every str message,     *)
(* the empty one included, it returns without error, and the name it       *)
(* returns is a key of the intent catalog and has an entry with a default  *)
(* reply in the reply table.                                               *)
(***************************************************************************)
C11_ClassifyReturnsACatalogIntent ==
    \A c \in Calls :
        IsStr(message[c]) =>
            /\ pc[c] # "except"
            /\ pc[c] \in {"generate", "call", "return", "done"} =>
                  /\ has_intent(intents, intent[c])
                  /\ \E i \in 1..Len(mock_responses) :
                        /\ mock_responses[i].name = intent[c]
                        /\ "default" \in DOMAIN mock_responses[i]
                        /\ mock_responses[i].default # <<>>

\* a message without any keyword has been classified and answered
C11_Witness ==
    \E c \in Calls :
        /\ pc[c] = "done"
        /\ message[c] = PyStr(MsgRandomText)
        /\ intent[c] = "account_and_setup"
        /\ has_intent(intents, intent[c])

(***************************************************************************)
(* C13.  Within one invocation of process_message the code sends at most   *)
(* one request to the generation service: once the call has failed the     *)
(* invocation is on its way to return the canned reply and sends nothing   *)
(* more.                                                                   *)
(***************************************************************************)
C13_AtMostOneExternalCall ==
    \A c \in Calls :
        /\ Len(sent[c]) <= 1
        /\ pc[c] = "call" => Len(sent[c]) = 1
        /\ CallFailed(c) =>
              /\ Len(sent[c]) = 1
              /\ pc[c] \in {"return", "done"}
              /\ response[c] = get_mock_response(message[c].value, intent[c])

\* a rejected call, answered from the table after one request
C13_Witness ==
    \E c \in Calls :
        /\ outcome[c].kind = "rejected"
        /\ pc[c] = "done"
        /\ Len(sent[c]) = 1
        /\ result[c].success = TRUE

(***************************************************************************)
(* C14.  With the capability configured and the call answered by a         *)
(* completion, the one request sent carried the system_prompt of the       *)
(* classified intent and the message as received, and process_message      *)
(* returns success = true, intent = classify_intent(message) and the       *)
(* completion with its surrounding whitespace removed: whatever the reply  *)
(* table holds for the message, and without an error record.               *)
(***************************************************************************)
\* leading and trailing whitespace removed, stated without recursion
Trimmed(s) ==
    LET keep == { i \in 1..Len(s) : s[i] \notin Whitespace }
    IN  IF keep = {} THEN <<>>
        ELSE SubSeq(s, CHOOSE i \in keep : \A j \in keep : i <= j,
                       CHOOSE i \in keep : \A j \in keep : j <= i)

C14_CompletionIsReturnedTrimmed ==
    \A c \in Calls :
        outcome[c].kind = "completion" =>
            LET name == classify_intent(intents, message[c].value)
            IN  /\ LLM_ENABLED
                /\ pc[c] \in {"return", "done"}
                /\ sent[c] = << [system |-> Entry(intents, name).system_prompt,
                                 user |-> message[c].value] >>
                /\ intent[c] = name
                /\ response[c] = Trimmed(outcome[c].content)
                /\ log[c] = <<"INFO">>
                /\ pc[c] = "done" =>
                      result[c] = [success |-> TRUE,
                                   intent |-> name,
                                   response |-> Trimmed(outcome[c].content)]

\* a completion wrapped in whitespace was returned trimmed for a message
\* the reply table has a keyed reply for
C14_Witness ==
    \E c \in Calls :
        /\ pc[c] = "done"
        /\ message[c] = PyStr(MsgTransferDelta)
        /\ outcome[c] = [kind |-> "completion",
                         content |-> <<" ", "H", "i", " ", "\n">>]
        /\ result[c].response = <<"H", "i">>
        /\ sent[c][1].system = "You are Pneuma's rewards program expert. ..."

(***************************************************************************)
(* C15.  The two routes to a canned reply differ in the log and in nothing *)
(* the caller sees: served without the capability configured, a request    *)
(* leaves no error-level record; served after a failed call, it leaves     *)
(* one; and in both cases the caller gets success = true, the classified   *)
(* intent and the reply get_mock_response gives for the message.           *)
(***************************************************************************)
\* what the caller gets on either route
FallbackResult(m) ==
    LET name == classify_intent(PneumaFAQBot_init, m)
    IN  [success |-> TRUE,
         intent |-> name,
         response |-> FirstTriggerReply(m, name)]

C15_RoutesDifferOnlyInTheLog ==
    \A c \in Calls :
        (pc[c] = "done" /\ IsStr(message[c])) =>
            /\ ~LLM_ENABLED =>
                  /\ \A i \in 1..Len(log[c]) : log[c][i] # "ERROR"
                  /\ sent[c] = <<>>
                  /\ result[c] = FallbackResult(message[c].value)
            /\ (LLM_ENABLED /\ CallFailed(c)) =>
                  /\ \E i \in 1..Len(log[c]) : log[c][i] = "ERROR"
                  /\ sent[c] # <<>>
                  /\ result[c] = FallbackResult(message[c].value)

\* a request served after a connection error, with its error record
C15_Witness ==
    \E c \in Calls :
        /\ pc[c] = "done"
        /\ LLM_ENABLED
        /\ outcome[c].kind = "connection_error"
        /\ message[c] = PyStr(MsgDealsToday)
        /\ log[c] = <<"INFO", "ERROR">>
        /\ result[c] = FallbackResult(MsgDealsToday)

(***************************************************************************)
(* C12.  get_mock_response called with an intent name the reply table has  *)
(* no entry for does not fail: it returns what it returns for              *)
(* 'account_and_setup', the reply of the first keyed trigger of            *)
(* account_and_setup that occurs in the message, else its default reply.   *)
(***************************************************************************)
C12_UnknownIntentUsesAccountAndSetup ==
    \A c \in Calls :
        (pc[c] = "mock_returned"
            /\ \A i \in 1..Len(mock_responses) : mock_responses[i].name # intent[c]) =>
            /\ response[c] = FirstTriggerReply(message[c].value, "account_and_setup")
            /\ response[c] \in FallbackReplies("account_and_setup")

\* 'Deals_And_Offers' is no key of the table: a message with the trigger
\* 'today' of deals_and_offers and the trigger 'login' of account_and_setup
\* gets the reply keyed by 'login'
C12_Witness ==
    \E c \in Calls :
        /\ pc[c] = "mock_returned"
        /\ intent[c] = "Deals_And_Offers"
        /\ message[c] = PyStr(<<"t", "o", "d", "a", "y", "l", "o", "g", "i", "n">>)
        /\ response[c] = KeyedReply("account_and_setup", <<"l", "o", "g", "i", "n">>)

(***************************************************************************)
(* C16.  For every POST /webhook payload of the direct test format (no     *)
(* 'Body', a 'message' that is a non-empty str) the handler passes exactly *)
(* that str to process_message and, processing having succeeded, answers   *)
(* 200 with success = true, the reply, the intent and the 'from' value     *)
(* ('test_user' when absent); it never answers 500 'Internal server        *)
(* error'.                                                                 *)
(***************************************************************************)
DirectFormat(d) ==
    /\ d # NoData
    /\ d # PyNone
    /\ d.Body = Absent
    /\ d.message.type = "str"
    /\ d.message.value # <<>>

C16_DirectFormatIsProcessed ==
    \A c \in Calls :
        DirectFormat(data[c]) =>
            /\ http[c] # InternalServerError
            /\ pc[c] \in {"classify", "generate", "call", "return", "done",
                          "responded"}
                  => message[c] = data[c].message
            /\ (pc[c] = "responded" /\ result[c] # NoResult /\ result[c].success) =>
                  http[c] = [status |-> 200,
                             body |-> [success |-> TRUE,
                                       reply |-> result[c].response,
                                       intent |-> result[c].intent,
                                       from |-> dict_get(data[c].from,
                                           <<"t", "e", "s", "t", "_", "u", "s", "e", "r">>)]]

=============================================================================
